---- MODULE Spec2Model ----
(***************************************************************************)
(* Access control of shuntress/web-host (src/src/auth.js).                 *)
(*                                                                         *)
(* The model follows the module as node runs it: one process, handlers     *)
(* that run to completion, and callbacks (key derivation, file reads)      *)
(* that run later as separate steps.  A string is a tuple of one-character *)
(* strings where the code looks inside it (URL paths); a text made of      *)
(* opaque pieces (a stored hash, a manifest line) is a tuple of tokens.    *)
(***************************************************************************)
EXTENDS Integers, Sequences, FiniteSets, TLC

(***************************************************************************)
(* Bounds of the model.                                                    *)
(***************************************************************************)
\* number of connections, each with at most one request in progress
MaxInFlight == 2
\* failed login attempts explored in one process lifetime
MaxAttempts == 5
\* config.totalUsernameLimit (200 by default), set small in the model
totalUsernameLimit == 3
\* number of directories that hold a manifest (readable or not)
MaxManifests == 2
\* account requests accepted for key derivation in one run of the model
MaxAppends == 2

VARIABLES
    running,                \* the node process is up
    useHttps,               \* config.useHttps
    authorized_credentials, \* name -> record, parsed from the credential file
    invalid_names,          \* name -> shadow record
    slots,                  \* connection -> its request: suspended, or answered
    manifests,              \* directory -> content of its .authorized_users
    failed,                 \* name -> denied validations since process start
    openAccountRequests,    \* the counter of pending account requests
    pendingFile,            \* the file of pending account requests
    accounts,               \* connection -> its account request
    plugins,                \* plugin file -> the names that the module exports
    routed                  \* what dispatch did with the last request

\* the state of the account-request intake
intake == <<openAccountRequests, pendingFile, accounts>>

\* the state of the router
routing == <<plugins, routed>>

vars == <<running, useHttps, authorized_credentials, invalid_names, slots,
          manifests, failed, openAccountRequests, pendingFile, accounts,
          plugins, routed>>

(***************************************************************************)
(* Strings.                                                                *)
(***************************************************************************)
\* String.prototype.includes on tuples of characters
includes(s, sub) ==
    \E i \in 0..(Len(s) - Len(sub)) : SubSeq(s, i + 1, i + Len(sub)) = sub

Whitespace == {<<" ">>, <<"\r">>, <<"\n">>}

\* String.prototype.trim on a text (a tuple of tokens)
RECURSIVE trimStart(_)
trimStart(t) ==
    IF t # <<>> /\ Head(t) \in Whitespace THEN trimStart(Tail(t)) ELSE t

RECURSIVE trimEnd(_)
trimEnd(t) ==
    IF t # <<>> /\ t[Len(t)] \in Whitespace
    THEN trimEnd(SubSeq(t, 1, Len(t) - 1)) ELSE t

trim(t) == trimEnd(trimStart(t))

\* a string without whitespace, as a text of one token
text(s) == << <<s>> >>

(***************************************************************************)
(* Key derivation.  pbkdf2 is taken to be injective on (password, salt).   *)
(***************************************************************************)
\* pbkdf2(password, salt, 10000, 64, 'sha512') followed by toString('base64')
getPasswordHash(salt, password) == <<"b64", password, salt>>

\* the password is undefined: crypto.pbkdf2 throws before it starts
undefined == "undefined"

(***************************************************************************)
(* The credential file, as read at startup.                                *)
(* A row is a line of the file: its length in characters and its parts     *)
(* (the line split on single spaces).                                      *)
(***************************************************************************)
CredentialFile == <<
    [length |-> 185, parts |-> <<"alice", "s1", <<getPasswordHash("s1", "pw1")>> >>],
    [length |-> 183, parts |-> <<"bob", "s2", <<getPasswordHash("s2", "pw2"), <<"\r">> >> >>],
    [length |-> 2,   parts |-> <<"xx">>],
    [length |-> 191, parts |-> <<"carol", "s3", <<getPasswordHash("s3", "pw1")>>, "locked">>],
    [length |-> 0,   parts |-> <<"">>] >>

\* Boolean(parts[3]): any non-empty fourth part locks the record
BooleanOfPart(parts, i) == i <= Len(parts) /\ parts[i] # ""

\* auth.js:59-66, filter / map / reduce over the rows
authorized_credentials_load(file) ==
    LET rows == {i \in 1..Len(file) : file[i].length > 3}
        names == {file[i].parts[1] : i \in rows}
        \* reduce: a later row with the same name overwrites an earlier one
        rowOf(n) == CHOOSE i \in rows : /\ file[i].parts[1] = n
                                        /\ \A j \in rows : file[j].parts[1] = n => j <= i
    IN [n \in names |->
          [salt |-> file[rowOf(n)].parts[2],
           pwHash |-> file[rowOf(n)].parts[3],
           locked |-> BooleanOfPart(file[rowOf(n)].parts, 4),
           loginAttempts |-> 0]]

\* names that every plain object inherits from Object.prototype
ObjectPrototypeKeys == {"toString"}

\* map[name] == null on a plain object
isNull(map, name) == name \notin DOMAIN map /\ name \notin ObjectPrototypeKeys

\* the sentinel hash is the hash of a password under the salt of unknown names
ShadowRecord_guessable ==
    [salt |-> " no salt ",
     pwHash |-> << <<" ">>, getPasswordHash("", "pw1"), <<" ">> >>,
     loginAttempts |-> 0,
     locked |-> FALSE]

\* auth.js:264-269
ShadowRecord ==
    [salt |-> " no salt ",
     pwHash |-> << <<" ">>, <<"no password hash">>, <<" ">> >>,
     loginAttempts |-> 0,
     locked |-> FALSE]

(***************************************************************************)
(* Requests.                                                               *)
(***************************************************************************)
\* the Authorization header split on ' '; the second part is given decoded
\* and split on ':'
NoHeader == <<>>
BasicHeader(fields) == <<"Basic", fields>>

\* auth.js:240-242 (and 316-319): false when there is nothing to decode
NoCredentials == <<>>

\* a request without a usable header is validated as mallory
credentialsOf_guest(req) ==
    IF Len(req.auth) > 1 THEN req.auth[2] ELSE <<"mallory", "pw1">>

credentialsOf(req) ==
    IF Len(req.auth) > 1 THEN req.auth[2] ELSE NoCredentials

\* auth.js:315-320
getUserName(req) ==
    IF credentialsOf(req) = NoCredentials THEN undefined
    ELSE credentialsOf(req)[1]

\* a header of one part, and a header whose decoded value has no ':'
OnePartHeader == <<"Basic">>
NoColonHeader(name) == BasicHeader(<<name>>)

PrivateUrl == <<"/", "p", "r", "i", "v", "a", "t", "e", "/", "x">>
PublicUrl == <<"/", "p", "u", "b">>
\* /%70rivate/x: the 'p' of "private" is percent-encoded
EncodedUrl == <<"/", "%", "7", "0", "r", "i", "v", "a", "t", "e", "/", "x">>
Urls == {PrivateUrl, PublicUrl, EncodedUrl}

\* new url.URL(req.url, base).pathname: the URL up to '?' or '#'
RECURSIVE pathname(_)
pathname(u) ==
    IF u = <<>> \/ Head(u) \in {"?", "#"} THEN <<>>
    ELSE <<Head(u)>> \o pathname(Tail(u))

\* the character that a percent escape stands for
unescape(hi, lo) ==
    IF <<hi, lo>> = <<"7", "0">> THEN "p"
    ELSE IF <<hi, lo>> = <<"2", "F">> THEN "/"
    ELSE "?"

\* decodeURIComponent on a well-formed string
RECURSIVE decodeURIComponent(_)
decodeURIComponent(u) ==
    IF u = <<>> THEN <<>>
    ELSE IF Head(u) = "%" /\ Len(u) >= 3
         THEN <<unescape(u[2], u[3])>> \o decodeURIComponent(SubSeq(u, 4, Len(u)))
         ELSE <<Head(u)>> \o decodeURIComponent(Tail(u))

\* index.js:20, the path that the static file module resolves under the
\* web root: url.parse(req.url).pathname, decoded
webPath(url) == decodeURIComponent(pathname(url))

\* every path is classified as protected
isPrivate_everything(req) == TRUE

\* auth.js:95
isPrivate(req) ==
    ~ (req.url # <<>> /\ ~ includes(pathname(req.url), <<"p", "r", "i", "v", "a", "t", "e">>))

(***************************************************************************)
(* Responses.                                                              *)
(***************************************************************************)
Response(status, headers, body) ==
    [status |-> status, headers |-> headers, body |-> body]

\* a request that is not let through is rejected flatly
LoginPrompt_flatReject ==
    Response(403, {<<"Content-Type", "text/plain">>}, "Access Forbidden")

\* auth.js:298-302
LoginPrompt ==
    Response(401, {<<"WWW-Authenticate", "Basic realm=\"log in please\"">>}, "Access Denied")
\* auth.js:259-260
TooManyNames == Response(500, {}, "Internal Error")
\* a failed derivation is answered like a wrong password
DerivationError_asChallenge == LoginPrompt

\* auth.js:279-280
DerivationError == Response(500, {}, "")
\* auth.js:133-134
NoHttps == Response(500, {}, "Internal Error")
\* a caller who is not listed is asked to log in again
Forbidden_asChallenge == LoginPrompt

\* auth.js:145-146
Forbidden == Response(403, {<<"Content-Type", "text/plain">>}, "Access Forbidden")
\* the callback ran: the response is written by the caller of the gate
NoResponse == Response(0, {}, "")

NoRequest == [url |-> <<>>, auth |-> NoHeader]

\* a connection: idle, suspended in a callback ("readFile", "pbkdf2"), or
\* "done": it carried the request that ended last, and shows its outcome
Idle ==
    [pc |-> "idle", op |-> "", req |-> NoRequest,
     username |-> "", password |-> "", salt |-> "", checkPath |-> <<>>,
     data |-> [err |-> "ENOENT", lines |-> <<>>],
     granted |-> FALSE, crashed |-> FALSE, response |-> NoResponse]

Slots == 1..MaxInFlight

(***************************************************************************)
(* The file system below and around the web root.                          *)
(* A path is the tuple of its segments.                                    *)
(***************************************************************************)
\* config.wwwRoot
wwwRoot == <<"srv", "content">>

Dirs == {<<"srv">>, wwwRoot, wwwRoot \o <<"a">>, wwwRoot \o <<"a", "b">>}

\* p is q or a directory below q
atOrBelow(p, q) == Len(p) >= Len(q) /\ SubSeq(p, 1, Len(q)) = q

\* the segments of a path given as a tuple of characters: empty segments
\* vanish, as under path.normalize and path.join
RECURSIVE segments(_, _)
segments(chars, seg) ==
    IF chars = <<>> THEN (IF seg = "" THEN <<>> ELSE <<seg>>)
    ELSE IF Head(chars) = "/"
         THEN (IF seg = "" THEN <<>> ELSE <<seg>>) \o segments(Tail(chars), "")
         ELSE segments(Tail(chars), Head(chars))

\* index.js:20-21 and 34: the directory that the URL names (segments are
\* single characters in the model's tree)
absoluteSystemPath(url) == wwwRoot \o segments(webPath(url), "")

\* the walk goes up two directories at a time
dirname_skipsLevel(p) == IF Len(p) < 2 THEN <<>> ELSE SubSeq(p, 1, Len(p) - 2)

\* path.dirname
dirname(p) == IF p = <<>> THEN <<>> ELSE SubSeq(p, 1, Len(p) - 1)

\* path.basename ('' for the file system root)
basename(p) == IF p = <<>> THEN "" ELSE p[Len(p)]

\* a relative path given as one name, as the tuple of its segments
asPath(name) == IF name = "" THEN <<>> ELSE <<name>>

RECURSIVE commonPrefix(_, _)
commonPrefix(p, q) ==
    IF p = <<>> \/ q = <<>> \/ Head(p) # Head(q) THEN 0
    ELSE 1 + commonPrefix(Tail(p), Tail(q))

\* path.relative(from, to): one '..' for every segment of `from` below the
\* common prefix, then the rest of `to`
relative(from, to) ==
    LET k == commonPrefix(from, to)
    IN [i \in 1..(Len(from) - k) |-> ".."] \o SubSeq(to, k + 1, Len(to))

\* auth.js:120
atRoot(checkPath, root) == relative(checkPath, root) = asPath(basename(root))

\* what fs.readFile(path.join(dir, ".authorized_users")) yields
Missing == [err |-> "ENOENT", lines |-> <<>>]
Unreadable == [err |-> "EACCES", lines |-> <<>>]
Manifest(lines) == [err |-> "", lines |-> lines]

readFile(dir) == IF dir \in DOMAIN manifests THEN manifests[dir] ELSE Missing

\* every failed read counts as a missing file
isMissing_anyError(data) == data.err # ""

\* auth.js:117-118
isMissing(data) == data.err = "ENOENT"

\* a name is listed when it occurs somewhere inside a line
listed_substring(data, name) ==
    \E i \in 1..Len(data.lines) : includes(data.lines[i], text(name))

\* auth.js:142, data.toString().split(os.EOL).includes(name): the lines are
\* texts, compared whole and as they stand in the file
listed(data, name) == \E i \in 1..Len(data.lines) : data.lines[i] = text(name)

(***************************************************************************)
(* State shared by the handlers.                                           *)
(***************************************************************************)
Names == {"alice", "bob", "carol", "mallory", "eve", "trent", "toString"}
Passwords == {"pw1", "pw2"}

\* authorized_credentials[username] ?? invalid_names[username]
hasRecord(name) == name \in DOMAIN authorized_credentials \/ name \in DOMAIN invalid_names
recordOf(name) ==
    IF name \in DOMAIN authorized_credentials THEN authorized_credentials[name]
    ELSE invalid_names[name]

\* the lookup yields something inherited from Object.prototype, which has
\* no pwHash: user.pwHash.trim() throws
inheritedRecord(name) ==
    name \notin DOMAIN authorized_credentials /\ name \in ObjectPrototypeKeys

suspended(s) == slots[s].pc \in {"readFile", "pbkdf2"}

\* a request takes the first connection that is not waiting for a callback
\* (connections are interchangeable)
free(s) == ~suspended(s) /\ \A t \in Slots : t < s => suspended(t)

RECURSIVE sumAttempts(_, _)
sumAttempts(map, names) ==
    IF names = {} THEN 0
    ELSE LET n == CHOOSE x \in names : TRUE
         IN map[n].loginAttempts + sumAttempts(map, names \ {n})

\* the counters are unbounded in the code; the model stops taking requests
\* once the failed attempts counted so far, plus the requests still
\* suspended, reach MaxAttempts
committedAttempts ==
    sumAttempts(authorized_credentials, DOMAIN authorized_credentials)
      + sumAttempts(invalid_names, DOMAIN invalid_names)
      + Cardinality({s \in Slots : suspended(s)})

withinBudget == committedAttempts < MaxAttempts

\* the request on connection s ends: the callback ran (granted) or a
\* response was written
Finish(s, op, req, granted, response) ==
    slots' = [t \in Slots |->
                IF t = s
                THEN [Idle EXCEPT !.pc = "done", !.op = op, !.req = req,
                                  !.granted = granted, !.response = response]
                ELSE IF slots[t].pc = "done" THEN Idle
                ELSE slots[t]]

\* an exception nobody catches ends the process, and every connection with it
Exit(s, op, req) ==
    /\ running' = FALSE
    /\ slots' = [t \in Slots |->
                   IF t = s
                   THEN [Idle EXCEPT !.pc = "done", !.op = op, !.req = req,
                                     !.crashed = TRUE]
                   ELSE Idle]

Crash(s, op, req) ==
    /\ Exit(s, op, req)
    /\ UNCHANGED <<useHttps, authorized_credentials, invalid_names, manifests, failed>>

\* only the shadow records are counted
tooManyNames_shadowOnly == Cardinality(DOMAIN invalid_names) > totalUsernameLimit

\* the ceiling is applied one record early
tooManyNames_atLimit ==
    Cardinality(DOMAIN authorized_credentials) + Cardinality(DOMAIN invalid_names)
        >= totalUsernameLimit

\* auth.js:256
tooManyNames ==
    Cardinality(DOMAIN authorized_credentials) + Cardinality(DOMAIN invalid_names)
        > totalUsernameLimit

\* the lock flag is not looked at
credentialsMatch_ignoresLock(user, pwHash) == trim(user.pwHash) = <<pwHash>>

\* the derived hash is not looked at
credentialsMatch_ignoresHash(user, pwHash) == ~user.locked

\* auth.js:284
credentialsMatch(user, pwHash) == trim(user.pwHash) = <<pwHash>> /\ ~user.locked

\* the lock comes one attempt late
overAttempts_oneLate(user) == user.loginAttempts > 4

\* auth.js:289
overAttempts(user) == user.loginAttempts > 3

\* a locked account is told so
deniedResponse_revealsLock(user) ==
    IF user.locked THEN Response(403, {}, "Account Locked") ELSE LoginPrompt

\* auth.js:293: what a request whose credentials did not pass is answered
deniedResponse(user) == LoginPrompt

\* the lock flag is recomputed from the counter on every failure
afterFailure_recomputesLock(user) ==
    LET counted == [user EXCEPT !.loginAttempts = @ + 1]
    IN [counted EXCEPT !.locked = overAttempts(counted)]

\* a failure is counted twice
afterFailure_countsTwice(user) ==
    LET counted == [user EXCEPT !.loginAttempts = @ + 2]
    IN IF overAttempts(counted) THEN [counted EXCEPT !.locked = TRUE] ELSE counted

\* auth.js:287-292 on one record
afterFailure(user) ==
    LET counted == [user EXCEPT !.loginAttempts = @ + 1]
    IN IF overAttempts(counted) THEN [counted EXCEPT !.locked = TRUE] ELSE counted

\* a successful login clears the counter
afterSuccess_resets(user) == [user EXCEPT !.loginAttempts = 0]

\* auth.js:284-285 on one record: the callback is called, nothing is written
afterSuccess(user) == user

\* auth.js:283-285: the record that `user` refers to after a match
recordSuccess(name) ==
    IF name \in DOMAIN authorized_credentials
    THEN /\ authorized_credentials' =
               [authorized_credentials EXCEPT ![name] = afterSuccess(@)]
         /\ UNCHANGED invalid_names
    ELSE /\ invalid_names' = [invalid_names EXCEPT ![name] = afterSuccess(@)]
         /\ UNCHANGED authorized_credentials

\* auth.js:283, 287-292: the record that `user` refers to is updated in place
recordFailure(name) ==
    IF name \in DOMAIN authorized_credentials
    THEN /\ authorized_credentials' =
               [authorized_credentials EXCEPT ![name] = afterFailure(@)]
         /\ UNCHANGED invalid_names
    ELSE /\ invalid_names' = [invalid_names EXCEPT ![name] = afterFailure(@)]
         /\ UNCHANGED authorized_credentials

(***************************************************************************)
(* validateCredentials, auth.js:239-275: the part that runs before the key *)
(* derivation is handed to the thread pool.                                *)
(***************************************************************************)
\* auth.js:250
firstSight(username) ==
    isNull(authorized_credentials, username) /\ isNull(invalid_names, username)

\* the shadow record is written without regard to the test for a new name
withShadowRecord_unguarded(username) ==
    [n \in DOMAIN invalid_names \cup {username} |->
       IF n = username THEN ShadowRecord ELSE invalid_names[n]]

\* auth.js:250 and 264-269: the shadow map after the test for a new name
withShadowRecord(username) ==
    IF firstSight(username)
    THEN [n \in DOMAIN invalid_names \cup {username} |->
            IF n = username THEN ShadowRecord ELSE invalid_names[n]]
    ELSE invalid_names

validateCredentials(s, op, req, checkPath, data) ==
    LET credentials == credentialsOf(req)
        username == credentials[1]
        password == IF Len(credentials) > 1 THEN credentials[2] ELSE undefined
        salt == IF username \in DOMAIN authorized_credentials
                THEN authorized_credentials[username].salt ELSE ""
    IN
    IF credentials = NoCredentials THEN
        /\ Finish(s, op, req, FALSE, LoginPrompt)
        /\ UNCHANGED <<running, useHttps, authorized_credentials, invalid_names,
                       manifests, failed>>
    ELSE IF firstSight(username) /\ tooManyNames THEN
        /\ Finish(s, op, req, FALSE, TooManyNames)
        /\ UNCHANGED <<running, useHttps, authorized_credentials, invalid_names,
                       manifests, failed>>
    ELSE
        /\ invalid_names' = withShadowRecord(username)
        /\ IF password = undefined
           THEN \* auth.js:276: crypto.pbkdf2 throws on the spot
                /\ Exit(s, op, req)
                /\ UNCHANGED <<useHttps, authorized_credentials, manifests, failed>>
           ELSE
           /\ slots' = [slots EXCEPT ![s] =
                       [Idle EXCEPT !.pc = "pbkdf2", !.op = op, !.req = req,
                                    !.username = username, !.password = password,
                                    !.salt = salt, !.checkPath = checkPath,
                                    !.data = data]]
           /\ UNCHANGED <<running, useHttps, authorized_credentials, manifests, failed>>

(***************************************************************************)
(* Actions.                                                                *)
(***************************************************************************)
\* auth.js:92-102
Authenticate(s, req) ==
    /\ running
    /\ free(s)
    /\ withinBudget
    /\ IF ~isPrivate(req)
       THEN /\ Finish(s, "authenticate", req, TRUE, NoResponse)
            /\ UNCHANGED <<running, useHttps, authorized_credentials, invalid_names,
                           manifests, failed>>
       ELSE validateCredentials(s, "authenticate", req, <<>>, Missing)

\* auth.js:276-295 for both gates, and auth.js:139-149 when the gate is authorize
PbkdfDone(s, err) ==
    LET c == slots[s]
        pwHash == getPasswordHash(c.salt, c.password)
    IN
    /\ running
    /\ c.pc = "pbkdf2"
    /\ IF err THEN
          /\ Finish(s, c.op, c.req, FALSE, DerivationError)
          /\ UNCHANGED <<running, useHttps, authorized_credentials, invalid_names,
                         manifests, failed>>
       ELSE IF inheritedRecord(c.username) THEN
          Crash(s, c.op, c.req)
       ELSE IF credentialsMatch(recordOf(c.username), pwHash) THEN
          IF c.op = "authenticate" THEN
             /\ Finish(s, c.op, c.req, TRUE, NoResponse)
             /\ recordSuccess(c.username)
             /\ UNCHANGED <<running, useHttps, manifests, failed>>
          ELSE IF c.data.err # "" THEN
             \* data is undefined: data.toString() throws
             Crash(s, c.op, c.req)
          ELSE
             /\ Finish(s, c.op, c.req, listed(c.data, getUserName(c.req)),
                       IF listed(c.data, getUserName(c.req)) THEN NoResponse
                       ELSE Forbidden)
             /\ recordSuccess(c.username)
             /\ UNCHANGED <<running, useHttps, manifests, failed>>
       ELSE
          /\ recordFailure(c.username)
          /\ failed' = [failed EXCEPT ![c.username] = @ + 1]
          /\ Finish(s, c.op, c.req, FALSE, deniedResponse(recordOf(c.username)))
          /\ UNCHANGED <<running, useHttps, manifests>>

\* index.js:34 and auth.js:115-116: the static file module asks for the
\* directory of the URL, and the first read of the walk is issued
Authorize(s, req) ==
    /\ running
    /\ free(s)
    /\ withinBudget
    /\ slots' = [slots EXCEPT ![s] =
                   [Idle EXCEPT !.pc = "readFile", !.op = "authorize", !.req = req,
                                !.checkPath = absoluteSystemPath(req.url)]]
    /\ UNCHANGED <<running, useHttps, authorized_credentials, invalid_names,
                   manifests, failed>>

\* the callback that authenticate was given may run: the request has passed
\* the gate and nothing was answered
passedGate_evenDenied(c) == c.pc = "done" /\ c.op = "authenticate" /\ ~c.crashed

\* site.js:288-290, auth.js:97 and 285
passedGate(c) ==
    c.pc = "done" /\ c.op = "authenticate" /\ ~c.crashed /\ c.granted

\* site.js:288-290, dispatch.js:97-99, index.js:19-37: the request that has
\* passed authenticate is dispatched to the static file module, which asks
\* authorize for the directory of the URL
index(s) ==
    /\ running
    /\ passedGate(slots[s])
    /\ withinBudget
    /\ slots' = [slots EXCEPT ![s] =
                   [Idle EXCEPT !.pc = "readFile", !.op = "authorize",
                                !.req = slots[s].req,
                                !.checkPath = absoluteSystemPath(slots[s].req.url)]]
    /\ UNCHANGED <<running, useHttps, authorized_credentials, invalid_names,
                   manifests, failed>>

\* auth.js:116-150: the callback of fs.readFile
ReadFileDone(s) ==
    LET c == slots[s]
        data == readFile(c.checkPath)
    IN
    /\ running
    /\ c.pc = "readFile"
    /\ IF isMissing(data) THEN
          IF atRoot(c.checkPath, wwwRoot) THEN
             /\ Finish(s, "authorize", c.req, TRUE, NoResponse)
             /\ UNCHANGED <<running, useHttps, authorized_credentials, invalid_names,
                            manifests, failed>>
          ELSE
             /\ slots' = [slots EXCEPT ![s].checkPath = dirname(c.checkPath)]
             /\ UNCHANGED <<running, useHttps, authorized_credentials, invalid_names,
                            manifests, failed>>
       ELSE IF ~useHttps THEN
          /\ Finish(s, "authorize", c.req, FALSE, NoHttps)
          /\ UNCHANGED <<running, useHttps, authorized_credentials, invalid_names,
                         manifests, failed>>
       ELSE validateCredentials(s, "authorize", c.req, c.checkPath, data)

(***************************************************************************)
(* Account requests, auth.js:158-227 and 68-74.                            *)
(* A username or a password is a tuple of characters; the pending-request  *)
(* file is a text whose tokens are records and line breaks.                *)
(***************************************************************************)
\* the pieces of a sequence between the occurrences of sep
\* (String.prototype.split): one piece more than there are separators
splitOn(t, sep) ==
    LET marks == {0} \cup {i \in 1..Len(t) : t[i] = sep}
        start(k) == CHOOSE i \in marks : Cardinality({j \in marks : j < i}) = k - 1
        stop(k) == IF k = Cardinality(marks) THEN Len(t) + 1 ELSE start(k + 1)
    IN [k \in 1..Cardinality(marks) |-> SubSeq(t, start(k) + 1, stop(k) - 1)]

\* text.split(sep).length
splitLength(t, sep) == Cardinality({i \in 1..Len(t) : t[i] = sep}) + 1

\* os.EOL, as a token of a text
EOL == <<"\n">>

\* a record that was in the file before the process started
OldRecord == <<"old">>

NoFile == [exists |-> FALSE, text |-> <<>>]

\* a file of k records, each followed by a line break
FileOf(k) ==
    [exists |-> TRUE,
     text |-> [i \in 1..(2 * k) |-> IF i % 2 = 1 THEN OldRecord ELSE EOL]]

\* the counter is read as the number of lines
openAccountRequests_countsLines(file) ==
    IF ~file.exists THEN 0 ELSE splitLength(file.text, EOL)

\* auth.js:68-74
openAccountRequests_load(file) ==
    IF ~file.exists THEN 0
    ELSE LET n == splitLength(file.text, EOL) - 1
         IN IF n > 0 THEN n ELSE 0

\* the write reports success and stores nothing
appendFile_lost(file, userRecord) == [exists |-> TRUE, text |-> file.text]

\* the record is written twice
appendFile_twice(file, userRecord) ==
    [exists |-> TRUE, text |-> file.text \o <<userRecord, EOL, userRecord, EOL>>]

\* auth.js:217, fs.appendFile(path, userRecord + os.EOL) when it succeeds
appendFile(file, userRecord) ==
    [exists |-> TRUE, text |-> file.text \o <<userRecord, EOL>>]

\* the code points of the characters that the model uses
charCode(c) ==
    CASE c = " " -> 32 [] c = "-" -> 45 [] c = "/" -> 47 [] c = "." -> 46
      [] c = "1" -> 49 [] c = "2" -> 50 [] c = "3" -> 51
      [] c = ":" -> 58 [] c = ";" -> 59
      [] c = "[" -> 91 [] c = "]" -> 93 [] c = "^" -> 94 [] c = "_" -> 95
      [] c = "a" -> 97 [] c = "b" -> 98 [] c = "f" -> 102 [] c = "m" -> 109
      [] c = "o" -> 111 [] c = "p" -> 112 [] c = "r" -> 114 [] c = "w" -> 119

\* a character outside the negated class of /[^A-z^0-9]/: in the range
\* 'A'..'z', or '^', or in the range '0'..'9'
inClass(c) ==
    \/ charCode(c) >= 65 /\ charCode(c) <= 122
    \/ c = "^"
    \/ charCode(c) >= 48 /\ charCode(c) <= 57

\* auth.js:189, the bound on the length of a username
maxUsernameLength == 64

\* auth.js:189
invalidUsername(username) ==
    \/ \E i \in 1..Len(username) : ~inClass(username[i])
    \/ Len(username) > maxUsernameLength

\* normalizeString of path.normalize: '.' and empty segments vanish, '..'
\* removes the segment before it, or stays when there is none and the path
\* is relative
RECURSIVE resolveSegments(_, _, _)
resolveSegments(segs, out, allowAboveRoot) ==
    IF segs = <<>> THEN out
    ELSE LET seg == Head(segs)
         IN IF seg = <<>> \/ seg = <<".">>
            THEN resolveSegments(Tail(segs), out, allowAboveRoot)
            ELSE IF seg = <<".", ".">>
            THEN IF out # <<>> /\ out[Len(out)] # <<".", ".">>
                 THEN resolveSegments(Tail(segs), SubSeq(out, 1, Len(out) - 1),
                                      allowAboveRoot)
                 ELSE IF allowAboveRoot
                 THEN resolveSegments(Tail(segs), Append(out, seg), allowAboveRoot)
                 ELSE resolveSegments(Tail(segs), out, allowAboveRoot)
            ELSE resolveSegments(Tail(segs), Append(out, seg), allowAboveRoot)

RECURSIVE joinSegments(_)
joinSegments(segs) ==
    IF segs = <<>> THEN <<>>
    ELSE IF Len(segs) = 1 THEN Head(segs)
    ELSE Head(segs) \o <<"/">> \o joinSegments(Tail(segs))

\* path.normalize (posix) on a tuple of characters
normalize(p) ==
    IF p = <<>> THEN <<".">>
    ELSE LET isAbsolute == Head(p) = "/"
             trailingSeparator == p[Len(p)] = "/"
             body == joinSegments(
                        resolveSegments(splitOn(p, "/"), <<>>, ~isAbsolute))
         IN IF body = <<>>
            THEN (IF isAbsolute THEN <<"/">>
                  ELSE IF trailingSeparator THEN <<".", "/">> ELSE <<".">>)
            ELSE (IF isAbsolute THEN <<"/">> ELSE <<>>) \o body
                   \o (IF trailingSeparator THEN <<"/">> ELSE <<>>)

\* auth.js:242, 282: the login takes the piece between the first and the
\* second colon of "name:password" as the password
loginPassword(password) == splitOn(password, ":")[1]

\* the record of a request as a row of the credential file: the README has
\* the operator copy it there, and auth.js:59-66 splits it at the spaces
credentialRow(userRecord) ==
    [length |-> Len(userRecord[1]) + 178,
     parts |-> <<userRecord[1], userRecord[2], <<userRecord[3]>> >>]

\* auth.js:201, the bound on the counter
maxOpenAccountRequests == 100

\* the counter is tested one request early
tooManyOpenRequests_atLimit == openAccountRequests >= maxOpenAccountRequests

\* auth.js:201
tooManyOpenRequests == openAccountRequests > maxOpenAccountRequests

\* only a submitted form needs the secure transport
rejectedAsInsecure_postOnly(req) == ~useHttps /\ req.method = "POST"

\* auth.js:159
rejectedAsInsecure(req) == ~useHttps

\* randomBytes(64).toString('base64')
Salts == {"s8"}

\* auth.js:160-161, 166-179, 192-193, 203-204, 210-211, 220-221
InsecureTransport == Response(400, {}, "Account creation requires HTTPS connection.")
AccountForm == Response(200, {<<"Content-Type", "text/html">>}, "<html>form</html>")
InvalidUsername == Response(400, {}, "Invalid Username")
TooManyOpenRequests ==
    Response(500, {<<"Content-Type", "text/plain">>}, "Too many open account requests.")
HashError == Response(500, {}, "")
AccountRequested ==
    Response(200, {<<"Content-Type", "text/plain">>}, "Account requested.")

NoBody == [username |-> <<>>, password |-> <<>>]

\* a field that the parsed body does not have
absent == <<"undefined">>

\* a connection that carries an account request: idle, waiting for the key
\* derivation ("pbkdf2"), for the write ("appendFile"), for the callback of
\* the write ("appended"), or "done"
IdleAccount ==
    [pc |-> "idle", method |-> "", body |-> NoBody, userRecord |-> <<>>,
     err |-> "", crashed |-> FALSE, response |-> NoResponse]

pending(s) == accounts[s].pc \in {"pbkdf2", "appendFile", "appended"}

freeAccount(s) == ~pending(s) /\ \A t \in Slots : t < s => pending(t)

\* the records that the process has added to the file
newRecords(file) ==
    Cardinality({i \in 1..Len(file.text) : file.text[i] \notin {OldRecord, EOL}})

\* the model stops taking account requests once MaxAppends of them were
\* let through to the key derivation
intakeOpen ==
    newRecords(pendingFile) + Cardinality({s \in Slots : pending(s)}) < MaxAppends

\* the account request on connection s is answered, or left without answer
FinishAccount(s, req, response) ==
    accounts' = [t \in Slots |->
                   IF t = s
                   THEN [IdleAccount EXCEPT !.pc = "done", !.method = req.method,
                                            !.body = req.body, !.response = response]
                   ELSE IF accounts[t].pc = "done" THEN IdleAccount
                   ELSE accounts[t]]

\* an exception that nobody catches ends the process while the request on
\* connection s is handled
ExitAccount(s, req) ==
    /\ running' = FALSE
    /\ accounts' = [t \in Slots |->
                      IF t = s
                      THEN [IdleAccount EXCEPT !.pc = "done", !.method = req.method,
                                               !.body = req.body, !.crashed = TRUE]
                      ELSE IdleAccount]

\* auth.js:158-205
sendAccountForm(s, req) ==
    /\ running
    /\ freeAccount(s)
    /\ IF rejectedAsInsecure(req) THEN
          /\ FinishAccount(s, req, InsecureTransport)
          /\ UNCHANGED <<openAccountRequests, pendingFile>>
       ELSE IF req.method = "GET" THEN
          /\ FinishAccount(s, req, AccountForm)
          /\ UNCHANGED <<openAccountRequests, pendingFile>>
       ELSE IF req.method # "POST" THEN
          \* neither branch: the handler returns and nothing is ever sent
          /\ FinishAccount(s, req, NoResponse)
          /\ UNCHANGED <<openAccountRequests, pendingFile>>
       ELSE IF req.body.username = absent THEN
          \* auth.js:189: the test reads "undefined", which passes, and
          \* body.username.length throws
          /\ ExitAccount(s, req)
          /\ UNCHANGED <<openAccountRequests, pendingFile>>
       ELSE IF invalidUsername(req.body.username) THEN
          /\ FinishAccount(s, req, InvalidUsername)
          /\ UNCHANGED <<openAccountRequests, pendingFile>>
       ELSE IF req.body.password = absent THEN
          \* auth.js:198: path.normalize throws on a value that is no string
          /\ ExitAccount(s, req)
          /\ UNCHANGED <<openAccountRequests, pendingFile>>
       ELSE IF tooManyOpenRequests THEN
          /\ FinishAccount(s, req, TooManyOpenRequests)
          /\ UNCHANGED <<openAccountRequests, pendingFile>>
       ELSE
          /\ intakeOpen
          /\ \E salt \in Salts :
                accounts' = [accounts EXCEPT ![s] =
                   [IdleAccount EXCEPT
                      !.pc = "pbkdf2", !.method = req.method, !.body = req.body,
                      !.userRecord = <<normalize(req.body.username), salt,
                                       normalize(req.body.password)>>]]
          /\ UNCHANGED <<openAccountRequests, pendingFile>>
    /\ IF /\ ~rejectedAsInsecure(req)
          /\ req.method = "POST"
          /\ \/ req.body.username = absent
             \/ ~invalidUsername(req.body.username) /\ req.body.password = absent
       THEN UNCHANGED <<useHttps, authorized_credentials, invalid_names, slots,
                        manifests, failed>>
       ELSE UNCHANGED <<running, useHttps, authorized_credentials, invalid_names,
                        slots, manifests, failed>>

\* auth.js:206-217: the callback of the key derivation
HashDone(s, err) ==
    LET c == accounts[s]
    IN
    /\ running
    /\ c.pc = "pbkdf2"
    /\ IF err
       THEN FinishAccount(s, c, HashError)
       ELSE accounts' = [accounts EXCEPT ![s] =
               [c EXCEPT !.pc = "appendFile",
                         !.userRecord = <<c.userRecord[1], c.userRecord[2],
                                          getPasswordHash(c.userRecord[2],
                                                          c.userRecord[3])>>]]
    /\ UNCHANGED <<running, useHttps, authorized_credentials, invalid_names, slots,
                   manifests, failed, openAccountRequests, pendingFile>>

\* auth.js:217: the write is carried out, or fails, outside the event loop
AppendFileDone(s, err) ==
    LET c == accounts[s]
    IN
    /\ running
    /\ c.pc = "appendFile"
    /\ accounts' = [accounts EXCEPT ![s] = [c EXCEPT !.pc = "appended", !.err = err]]
    /\ pendingFile' = IF err = "" THEN appendFile(pendingFile, c.userRecord)
                      ELSE pendingFile
    /\ UNCHANGED <<running, useHttps, authorized_credentials, invalid_names, slots,
                   manifests, failed, openAccountRequests>>

\* auth.js:217-222: the callback of the write
AppendCallback(s) ==
    LET c == accounts[s]
    IN
    /\ c.pc = "appended"
    /\ running
    /\ IF c.err # "" THEN
          \* throw err: nobody catches it, the process ends
          /\ ExitAccount(s, c)
          /\ UNCHANGED openAccountRequests
       ELSE
          /\ openAccountRequests' = openAccountRequests + 1
          /\ FinishAccount(s, c, AccountRequested)
          /\ UNCHANGED running
    /\ UNCHANGED <<useHttps, authorized_credentials, invalid_names, slots,
                   manifests, failed, pendingFile>>

(***************************************************************************)
(* The router, dispatch.js:33-100 and 110-146.                             *)
(* A plugin file is named by the segments of its path below the plugin     *)
(* root, without the extension; a name is a tuple of characters.           *)
(***************************************************************************)
\* dispatch.js:36, pathname.split('/').filter(p => p)
parts(url) == SelectSeq(splitOn(pathname(url), "/"), LAMBDA p : p # <<>>)

\* dispatch.js:43 and 72, path.join(pluginRoot, pluginPath, plugin + '.js')
find(pluginPath, plugin) == Append(pluginPath, plugin)

\* the functions that every module object inherits from Object.prototype
ObjectPrototypeFunctions == {<<"t", "o", "S", "t", "r", "i", "n", "g">>}

\* dispatch.js:85-86, plugins[find][action] is truthy
hasAction(file, action) ==
    /\ file \in DOMAIN plugins
    /\ action \in plugins[file] \cup ObjectPrototypeFunctions

\* no action name is refused
refused_never(action) == FALSE

\* dispatch.js:81
refused(action) == action = <<"i", "n", "i", "t">>

\* a call of a function that a plugin module holds
Call(file, fn) == [plugin |-> file, fn |-> fn]

NoRoute == [url |-> <<>>, upgrade |-> FALSE, handler |-> "", calls |-> {}]

\* dispatch returns; handler names the module that the request was handed to
Routed(req, handler, calls) ==
    routed' = [url |-> req.url, upgrade |-> req.upgrade, handler |-> handler,
               calls |-> calls]

\* dispatch.js:33-100
dispatch(req) ==
    LET p == parts(req.url)
        n == Len(p)
    IN
    /\ running
    /\ IF req.upgrade THEN
          \* dispatch.js:39-53: the last segment names the plugin
          /\ IF /\ n > 0
                /\ find(SubSeq(p, 1, n - 1), p[n]) \in DOMAIN plugins
                /\ <<"w", "e", "b", "S", "o", "c", "k", "e", "t">> \in plugins[find(SubSeq(p, 1, n - 1), p[n])]
             THEN Routed(req, "webSocket",
                         {Call(find(SubSeq(p, 1, n - 1), p[n]), <<"w", "e", "b", "S", "o", "c", "k", "e", "t">>)})
             ELSE Routed(req, "none", {})
          /\ UNCHANGED <<running, useHttps, authorized_credentials, invalid_names,
                         slots, manifests, failed, intake>>
       ELSE IF p = (IF useHttps THEN <<<<"p", "r", "i", "v", "a", "t", "e">>, <<"s", "t", "a", "t", "u", "s">>>> ELSE <<<<"s", "t", "a", "t", "u", "s">>>>) THEN
          /\ Routed(req, "status", {})
          /\ UNCHANGED <<running, useHttps, authorized_credentials, invalid_names,
                         slots, manifests, failed, intake>>
       ELSE IF p = <<<<"a", "c", "c", "o", "u", "n", "t">>>> THEN
          /\ Routed(req, "account", {})
          /\ \E s \in Slots : sendAccountForm(s, [method |-> "GET", body |-> NoBody])
       ELSE IF n > 1 /\ refused(p[n]) THEN
          \* return false: nothing is called and nothing is answered
          /\ Routed(req, "none", {})
          /\ UNCHANGED <<running, useHttps, authorized_credentials, invalid_names,
                         slots, manifests, failed, intake>>
       ELSE IF n > 1 /\ hasAction(find(SubSeq(p, 1, n - 2), p[n - 1]), p[n]) THEN
          /\ Routed(req, "plugin",
                    {Call(find(SubSeq(p, 1, n - 2), p[n - 1]), p[n])})
          /\ UNCHANGED <<running, useHttps, authorized_credentials, invalid_names,
                         slots, manifests, failed, intake>>
       ELSE
          \* dispatch.js:97-99: the static file module takes the request
          /\ Routed(req, "index", {})
          /\ UNCHANGED <<running, useHttps, authorized_credentials, invalid_names,
                         slots, manifests, failed, intake>>
    /\ UNCHANGED plugins

\* the operator stops the process and starts it again: auth.js:35-76 runs anew
Restart ==
    /\ running' = TRUE
    /\ authorized_credentials' = authorized_credentials_load(CredentialFile)
    /\ invalid_names' = <<>>
    /\ slots' = [s \in Slots |-> Idle]
    /\ failed' = [n \in Names |-> 0]
    /\ openAccountRequests' = openAccountRequests_load(pendingFile)
    /\ accounts' = [s \in Slots |-> IdleAccount]
    /\ routed' = NoRoute
    /\ UNCHANGED <<useHttps, manifests, pendingFile, plugins>>

(***************************************************************************)
(* Specifications.                                                         *)
(***************************************************************************)
InitProcess ==
    /\ running = TRUE
    /\ authorized_credentials = authorized_credentials_load(CredentialFile)
    /\ invalid_names = <<>>
    /\ slots = [s \in Slots |-> Idle]
    /\ failed = [n \in Names |-> 0]
    /\ accounts = [s \in Slots |-> IdleAccount]
    /\ routed = NoRoute

\* no plugin is installed
NoPlugins == plugins = <<>>

\* no account request is pending and none arrives
NoIntake ==
    /\ pendingFile = NoFile
    /\ openAccountRequests = openAccountRequests_load(pendingFile)

\* Spec: the authentication gate, under logins that name a user of the
\* credential file (alice), a user loaded as locked (carol) and names that
\* are not in the file
LoginHeaders ==
    {NoHeader, BasicHeader(<<"alice", "pw1">>), BasicHeader(<<"alice", "pw2">>),
     BasicHeader(<<"carol", "pw1">>), BasicHeader(<<"mallory", "pw1">>),
     BasicHeader(<<"eve", "pw1">>), BasicHeader(<<"toString", "pw1">>),
     OnePartHeader, NoColonHeader("mallory")}

Init ==
    /\ InitProcess
    /\ NoIntake
    /\ NoPlugins
    /\ useHttps = TRUE
    /\ manifests = [d \in Dirs |-> Missing]

\* the headers sent with requests for a path that is not classified as
\* private: none, a wrong password, an unknown name, a malformed value
OpenHeaders ==
    {NoHeader, BasicHeader(<<"alice", "pw2">>), BasicHeader(<<"mallory", "pw1">>),
     NoColonHeader("mallory")}

LoginRequests ==
    {r \in [url : Urls, auth : LoginHeaders] :
        \/ r.url = PrivateUrl
        \/ r.url = PublicUrl /\ r.auth \in OpenHeaders
        \/ r.url = EncodedUrl /\ r.auth = NoHeader}

AuthenticateStep ==
    /\ \E s \in Slots, r \in LoginRequests : Authenticate(s, r)
    /\ UNCHANGED intake
    /\ UNCHANGED routing

PbkdfStep ==
    /\ \E s \in Slots, err \in BOOLEAN : PbkdfDone(s, err)
    /\ UNCHANGED intake
    /\ UNCHANGED routing

Next == AuthenticateStep \/ PbkdfStep \/ Restart

Spec == Init /\ [][Next]_vars


\* SpecAuthz: the authorization gate, over file systems with manifests in
\* at most MaxManifests directories
\* a manifest written with foreign line breaks and near-miss names: the
\* lines "xalice", "alicey", "bob\r" and the empty line after the last break
ForeignManifest ==
    Manifest(<< << <<"x">>, <<"alice">> >>, << <<"alice">>, <<"y">> >>,
                << <<"bob">>, <<"\r">> >>, <<>> >>)

ManifestOptions ==
    {Missing, Unreadable, Manifest(<<text("alice"), text("carol")>>),
     Manifest(<<text("bob")>>), ForeignManifest}

FileSystems ==
    {f \in [Dirs -> ManifestOptions] :
        Cardinality({d \in Dirs : f[d] # Missing}) <= MaxManifests}

\* no credentials; alice with her password and with a wrong one; bob with
\* his password; carol, who is locked, with her password
AuthzHeaders ==
    {NoHeader, BasicHeader(<<"alice", "pw1">>), BasicHeader(<<"alice", "pw2">>),
     BasicHeader(<<"bob", "pw2">>), BasicHeader(<<"carol", "pw1">>)}

InitAuthz ==
    /\ InitProcess
    /\ NoIntake
    /\ NoPlugins
    /\ useHttps \in BOOLEAN
    /\ manifests \in FileSystems

DirUrls == {<<"/">>, <<"/", "a">>, <<"/", "a", "/", "b">>}

\* the walks are explored one request at a time
AuthorizeStep ==
    /\ \A t \in Slots : ~suspended(t)
    /\ \E s \in Slots, u \in DirUrls, h \in AuthzHeaders :
          Authorize(s, [url |-> u, auth |-> h])
    /\ UNCHANGED intake
    /\ UNCHANGED routing

ReadFileStep ==
    /\ \E s \in Slots : ReadFileDone(s)
    /\ UNCHANGED intake
    /\ UNCHANGED routing

NextAuthz == AuthorizeStep \/ ReadFileStep \/ PbkdfStep \/ Restart

SpecAuthz == InitAuthz /\ [][NextAuthz]_vars

\* SpecHttps: the secure entry point, where a request passes authenticate and
\* is then served by the static file module, which calls authorize.  The
\* root has no manifest, or one that lists alice and carol, or one that
\* lists bob, or one that cannot be read.
HttpsFileSystems ==
    {f \in FileSystems :
        /\ \A d \in Dirs : d # wwwRoot => f[d] = Missing
        /\ f[wwwRoot] # ForeignManifest}

InitHttps ==
    /\ InitProcess
    /\ NoIntake
    /\ NoPlugins
    /\ useHttps = TRUE
    /\ manifests \in HttpsFileSystems

HttpsHeaders ==
    {NoHeader, BasicHeader(<<"alice", "pw1">>), BasicHeader(<<"alice", "pw2">>),
     BasicHeader(<<"bob", "pw2">>)}

HttpsStep ==
    /\ \E s \in Slots, h \in HttpsHeaders :
          Authenticate(s, [url |-> PrivateUrl, auth |-> h])
    /\ UNCHANGED intake
    /\ UNCHANGED routing

IndexStep ==
    /\ \E s \in Slots : index(s)
    /\ UNCHANGED intake
    /\ UNCHANGED routing

NextHttps == HttpsStep \/ PbkdfStep \/ IndexStep \/ ReadFileStep \/ Restart

SpecHttps == InitHttps /\ [][NextHttps]_vars

\* SpecAccount: the account-request page.  The file of pending requests is
\* absent, or holds as many records as earlier runs left in it.
InitialCounts == {maxOpenAccountRequests - 1, maxOpenAccountRequests,
                  maxOpenAccountRequests + 1}

InitialFiles == {NoFile} \cup {FileOf(k) : k \in InitialCounts}

InitAccount ==
    /\ InitProcess
    /\ NoPlugins
    /\ useHttps \in BOOLEAN
    /\ manifests = [d \in Dirs |-> Missing]
    /\ pendingFile \in InitialFiles
    /\ openAccountRequests = openAccountRequests_load(pendingFile)

\* "bob123", "bob_1", "[^]", "bob; rm -rf", and names of 64 and 65 letters
Usernames ==
    {<<"b", "o", "b", "1", "2", "3">>,
     <<"b", "o", "b", "_", "1">>,
     <<"[", "^", "]">>,
     <<"b", "o", "b", ";", " ", "r", "m", " ", "-", "r", "f">>,
     [i \in 1..maxUsernameLength |-> "a"],
     [i \in 1..(maxUsernameLength + 1) |-> "a"]}

\* "pw", "a//b", "p:w" and the empty password; a form may also lack a field
FormPasswords == {<<"p", "w">>, <<"a", "/", "/", "b">>, <<"p", ":", "w">>, <<>>}

\* every password is tried with the first name, the other names with "pw"
AccountRequests ==
    {[method |-> m, body |-> NoBody] : m \in {"GET", "PUT"}}
    \cup {[method |-> "POST", body |-> [username |-> u, password |-> <<"p", "w">>]] :
             u \in Usernames}
    \cup {[method |-> "POST",
           body |-> [username |-> <<"b", "o", "b", "1", "2", "3">>, password |-> p]] :
             p \in FormPasswords \cup {absent}}
    \cup {[method |-> "POST", body |-> [username |-> absent, password |-> <<"p", "w">>]]}

\* once a form was let through, the forms that follow it are plain ones
RepeatRequests ==
    {r \in AccountRequests :
        /\ r.method \in {"GET", "POST"}
        /\ r.body.password \in {<<>>, <<"p", "w">>}
        /\ r.body.username \in {<<>>, <<"b", "o", "b", "1", "2", "3">>,
                                 <<"b", "o", "b", ";", " ", "r", "m", " ", "-", "r", "f">>}
        /\ r.body.username = <<>> <=> r.method = "GET"}

OfferedRequests ==
    IF newRecords(pendingFile) = 0 /\ \A s \in Slots : ~pending(s)
    THEN AccountRequests ELSE RepeatRequests

AccountStep ==
    /\ \E s \in Slots, r \in OfferedRequests : sendAccountForm(s, r)
    /\ UNCHANGED routing

HashStep ==
    /\ \E s \in Slots, err \in BOOLEAN : HashDone(s, err)
    /\ UNCHANGED routing

AppendFileStep ==
    /\ \E s \in Slots, err \in {"", "EACCES"} : AppendFileDone(s, err)
    /\ UNCHANGED routing

AppendCallbackStep ==
    /\ \E s \in Slots : AppendCallback(s)
    /\ UNCHANGED routing

NextAccount ==
    AccountStep \/ HashStep \/ AppendFileStep \/ AppendCallbackStep \/ Restart

SpecAccount == InitAccount /\ [][NextAccount]_vars


(***************************************************************************)
(* Vocabulary of the properties.                                           *)
(***************************************************************************)
\* in this step the request on connection s ended
ended(s) == slots'[s].pc = "done" /\ slots'[s] # slots[s]

\* in this step the callback of the key derivation ran for connection s
completed(s) == slots[s].pc = "pbkdf2" /\ ended(s)

\* in this step a request arrived on connection s
arrived(s) ==
    /\ ~suspended(s)
    /\ slots'[s] # slots[s]
    /\ slots'[s].pc \in {"readFile", "pbkdf2", "done"}

submittedName(c) == credentialsOf(c.req)[1]
submittedPassword(c) == credentialsOf(c.req)[2]

\* the hash stored for `name` is the hash of `password` under the record's salt
storedHashMatches(name, password) ==
    /\ hasRecord(name)
    /\ trim(recordOf(name).pwHash)
         = <<getPasswordHash(recordOf(name).salt, password)>>

FileRecords == authorized_credentials_load(CredentialFile)

\* `password` is the password of `name` in the credential file
correctPassword(name, password) ==
    /\ name \in DOMAIN FileRecords
    /\ trim(FileRecords[name].pwHash)
         = <<getPasswordHash(FileRecords[name].salt, password)>>

loadedLocked(name) == name \in DOMAIN FileRecords /\ FileRecords[name].locked

population ==
    Cardinality(DOMAIN authorized_credentials) + Cardinality(DOMAIN invalid_names)

urlHasPrivate(req) == includes(pathname(req.url), <<"p", "r", "i", "v", "a", "t", "e">>)

(***************************************************************************)
(* C1.  For a request whose URL path contains "private", authenticate      *)
(* invokes the callback only if the hash derived from the submitted        *)
(* password equals the stored hash of the named record and that record is  *)
(* not locked when the derivation completes.                               *)
(***************************************************************************)
C1_GrantOnlyOnMatch ==
    [][\A s \in Slots :
          (/\ ended(s)
           /\ slots'[s].op = "authenticate"
           /\ urlHasPrivate(slots'[s].req)
           /\ slots'[s].granted)
          => /\ completed(s)
             /\ storedHashMatches(submittedName(slots[s]), submittedPassword(slots[s]))
             /\ ~recordOf(submittedName(slots[s])).locked]_vars

\* a login to a private URL was granted
C1_Witness ==
    \E s \in Slots :
        /\ slots[s].pc = "done"
        /\ slots[s].op = "authenticate"
        /\ urlHasPrivate(slots[s].req)
        /\ slots[s].granted

(***************************************************************************)
(* C2.  After 4 failed attempts for an identity every further attempt is   *)
(* denied, also with the correct password; after at most 3 failed attempts *)
(* a correct-password attempt is still granted.                            *)
(* C2_Original states it for every identity, C2_LockoutThreshold for the   *)
(* identities that the credential file does not mark as locked.            *)
(***************************************************************************)
C2_Original ==
    [][\A s \in Slots :
          completed(s) =>
            LET n == submittedName(slots[s])
                pw == submittedPassword(slots[s])
            IN /\ failed[n] >= 4 => ~slots'[s].granted
               /\ (/\ failed[n] <= 3
                   /\ correctPassword(n, pw)
                   /\ ~slots'[s].crashed
                   /\ slots'[s].response # DerivationError)
                  => slots'[s].granted]_vars

C2_LockoutThreshold ==
    [][\A s \in Slots :
          completed(s) =>
            LET n == submittedName(slots[s])
                pw == submittedPassword(slots[s])
            IN /\ failed[n] >= 4 => ~slots'[s].granted
               /\ (/\ failed[n] <= 3
                   /\ correctPassword(n, pw)
                   /\ ~loadedLocked(n)
                   /\ ~slots'[s].crashed
                   /\ slots'[s].response # DerivationError)
                  => slots'[s].granted]_vars

\* alice's fifth attempt, with her password, was denied
C2_Witness ==
    \E s \in Slots :
        /\ slots[s].pc = "done"
        /\ slots[s].req.auth = BasicHeader(<<"alice", "pw1">>)
        /\ slots[s].response = LoginPrompt
        /\ failed["alice"] = 5

(***************************************************************************)
(* C3.  Locking is one-way within a running process: no step other than a  *)
(* restart turns locked from true to false, for any record.                *)
(***************************************************************************)
lockedNow(n) == hasRecord(n) /\ recordOf(n).locked

C3_LockIsOneWay ==
    [][Restart \/ \A n \in Names : lockedNow(n) => lockedNow(n)']_vars

\* a record locked by failed attempts, a record loaded as locked and a
\* locked shadow record were each attempted again
C3_Witness ==
    /\ lockedNow("carol") /\ failed["carol"] >= 1
    /\ \E n \in DOMAIN invalid_names : invalid_names[n].locked

(***************************************************************************)
(* C4.  The number of credential records plus shadow records never exceeds *)
(* totalUsernameLimit (C4_Original); it never exceeds totalUsernameLimit   *)
(* + 1 (C4_PopulationBound).                                               *)
(***************************************************************************)
C4_Original == population <= totalUsernameLimit

C4_PopulationBound == population <= totalUsernameLimit + 1

\* the population is one above the limit
C4_Witness == population = totalUsernameLimit + 1

(***************************************************************************)
(* C5.  A login naming a username that neither map knows: at or above the  *)
(* ceiling it is answered 500, creates no record, changes no counter and   *)
(* is not granted; below the ceiling a shadow record with zero attempts    *)
(* and locked = false is created (C5_Original).  C5_Ceiling states the     *)
(* same with "above the ceiling" and "at or below the ceiling".            *)
(***************************************************************************)
\* a login naming a username that yields nothing in either map arrived
firstSightArrived(s) ==
    /\ arrived(s)
    /\ slots'[s].op = "authenticate"
    /\ urlHasPrivate(slots'[s].req)
    /\ credentialsOf(slots'[s].req) # NoCredentials
    /\ isNull(authorized_credentials, submittedName(slots'[s]))
    /\ isNull(invalid_names, submittedName(slots'[s]))

rejectedAtCeiling(s) ==
    /\ slots'[s].pc = "done"
    /\ slots'[s].response.status = 500
    /\ ~slots'[s].granted
    /\ invalid_names' = invalid_names
    /\ authorized_credentials' = authorized_credentials

shadowCreated(s) ==
    LET n == submittedName(slots'[s])
    IN /\ n \in DOMAIN invalid_names'
       /\ invalid_names'[n].loginAttempts = 0
       /\ invalid_names'[n].locked = FALSE
       /\ ~slots'[s].granted

C5_Original ==
    [][\A s \in Slots :
          firstSightArrived(s) =>
            IF population >= totalUsernameLimit
            THEN rejectedAtCeiling(s) ELSE shadowCreated(s)]_vars

C5_Ceiling ==
    [][\A s \in Slots :
          firstSightArrived(s) =>
            IF population > totalUsernameLimit
            THEN rejectedAtCeiling(s) ELSE shadowCreated(s)]_vars

\* a first-sight login was answered 500 while another name has its shadow record
C5_Witness ==
    /\ population = totalUsernameLimit + 1
    /\ \E n \in DOMAIN invalid_names : invalid_names[n].loginAttempts = 0
    /\ \E s \in Slots :
          /\ slots[s].pc = "done"
          /\ slots[s].response = TooManyNames
          /\ ~hasRecord(submittedName(slots[s]))

(***************************************************************************)
(* C6.  Repeated failed attempts against a username that is not in the     *)
(* credential file go through the same responses and the same attempt and  *)
(* lock transitions as wrong-password attempts against a real username:    *)
(* the k-th failure is answered with the login challenge, takes the        *)
(* counter to k and locks exactly when k exceeds 3.                        *)
(***************************************************************************)
C6_Claim ==
    [][\A s \in Slots :
          (/\ completed(s)
           /\ slots'[s].response # DerivationError
           /\ ~correctPassword(submittedName(slots[s]), submittedPassword(slots[s]))
           /\ ~loadedLocked(submittedName(slots[s])))
          => LET n == submittedName(slots[s])
                 k == failed[n] + 1
             IN /\ ~slots'[s].crashed
                /\ slots'[s].response = LoginPrompt
                /\ hasRecord(n)'
                /\ recordOf(n)'.loginAttempts = k
                /\ recordOf(n)'.locked = (k > 3)]_vars

(***************************************************************************)
(* C7.  Wrong password, locked account and missing credentials are all     *)
(* answered with the same response: 401, the same WWW-Authenticate header  *)
(* and the same body.                                                      *)
(***************************************************************************)
missingCredentials(s) ==
    /\ arrived(s)
    /\ slots'[s].pc = "done"
    /\ isPrivate(slots'[s].req)
    /\ credentialsOf(slots'[s].req) = NoCredentials

wrongPassword(s) ==
    /\ completed(s)
    /\ slots'[s].response # DerivationError
    /\ hasRecord(submittedName(slots[s]))
    /\ ~storedHashMatches(submittedName(slots[s]), submittedPassword(slots[s]))

lockedAccount(s) ==
    /\ completed(s)
    /\ slots'[s].response # DerivationError
    /\ lockedNow(submittedName(slots[s]))

C7_SameChallenge ==
    [][\A s \in Slots :
          (missingCredentials(s) \/ wrongPassword(s) \/ lockedAccount(s))
          => /\ slots'[s].response.status = 401
             /\ slots'[s].response.headers
                  = {<<"WWW-Authenticate", "Basic realm=\"log in please\"">>}
             /\ slots'[s].response.body = "Access Denied"]_vars

\* carol, locked, was denied with her own password: the answer is the
\* challenge that a request without credentials gets
C7_Witness ==
    \E s \in Slots :
        /\ slots[s].pc = "done"
        /\ slots[s].req.auth = BasicHeader(<<"carol", "pw1">>)
        /\ slots[s].response.status = 401
        /\ failed["carol"] >= 1
        /\ failed["alice"] >= 1


(***************************************************************************)
(* Vocabulary of the authorization walk.                                   *)
(***************************************************************************)
\* the directories from d up to and including the web root
upToRoot(d) == {e \in Dirs : atOrBelow(d, e) /\ atOrBelow(e, wwwRoot)}

noManifestUpToRoot(d) == \A e \in upToRoot(d) : manifests[e] = Missing

\* the nearest directory, from d up to the web root, that holds a manifest
nearestManifest(d) ==
    CHOOSE e \in upToRoot(d) :
        /\ manifests[e] # Missing
        /\ \A f \in upToRoot(d) : manifests[f] # Missing => Len(f) <= Len(e)

\* the credentials of the request pass validation in this state
validCredentials(req) ==
    /\ credentialsOf(req) # NoCredentials
    /\ credentialsOf(req)[1] \in DOMAIN authorized_credentials
    /\ storedHashMatches(credentialsOf(req)[1], credentialsOf(req)[2])
    /\ ~lockedNow(credentialsOf(req)[1])

(***************************************************************************)
(* C8.  The authorization walk only ever reads manifests in directories at *)
(* or below the web root.                                                  *)
(***************************************************************************)
C8_Claim ==
    \A s \in Slots :
        slots[s].pc = "readFile" => atOrBelow(slots[s].checkPath, wwwRoot)

(***************************************************************************)
(* C9.  When no manifest exists in any directory from the requested path   *)
(* up to and including the web root, authorize grants, whatever the        *)
(* Authorization header holds, and changes no credential or shadow record. *)
(***************************************************************************)
C9_Claim ==
    [][\A s \in Slots :
          (/\ ended(s)
           /\ slots'[s].op = "authorize"
           /\ noManifestUpToRoot(absoluteSystemPath(slots'[s].req.url)))
          => /\ slots'[s].granted
             /\ authorized_credentials' = authorized_credentials
             /\ invalid_names' = invalid_names]_vars

(***************************************************************************)
(* C10.  The decision is made by the nearest manifest found walking up     *)
(* from the requested directory: the request is granted iff the caller's   *)
(* identity (the name of credentials that pass validation) is a line of    *)
(* that manifest.  C10_Original states it for every configuration,         *)
(* C10_NearestManifestDecides for a process with HTTPS enabled.            *)
(***************************************************************************)
decidedByNearest(s) ==
    LET req == slots'[s].req
        m == manifests[nearestManifest(absoluteSystemPath(req.url))]
    IN /\ slots'[s].granted => validCredentials(req) /\ listed(m, getUserName(req))
       /\ (/\ validCredentials(req)
           /\ listed(m, getUserName(req))
           /\ slots'[s].response # DerivationError)
          => slots'[s].granted

manifestDecides(s) ==
    /\ ended(s)
    /\ slots'[s].op = "authorize"
    /\ ~noManifestUpToRoot(absoluteSystemPath(slots'[s].req.url))
    /\ manifests[nearestManifest(absoluteSystemPath(slots'[s].req.url))].err = ""

C10_Original ==
    [][\A s \in Slots : manifestDecides(s) => decidedByNearest(s)]_vars

C10_NearestManifestDecides ==
    [][\A s \in Slots : manifestDecides(s) /\ useHttps => decidedByNearest(s)]_vars

\* a lookup starting at root/a/b was granted by the manifest of root/a,
\* which lists bob, while the manifest of the root lists alice and carol
C10_Witness ==
    /\ manifests[wwwRoot \o <<"a", "b">>] = Missing
    /\ manifests[wwwRoot \o <<"a">>] = Manifest(<<text("bob")>>)
    /\ manifests[wwwRoot] = Manifest(<<text("alice"), text("carol")>>)
    /\ \E s \in Slots :
          /\ slots[s].pc = "done"
          /\ slots[s].op = "authorize"
          /\ slots[s].req.url = <<"/", "a", "/", "b">>
          /\ slots[s].req.auth = BasicHeader(<<"bob", "pw2">>)
          /\ slots[s].granted

(***************************************************************************)
(* Vocabulary of the decisions taken at a manifest.                        *)
(***************************************************************************)
\* what the read that the request on connection s waits for, or waited for
\* last, yields
foundData(s) ==
    IF slots[s].pc = "readFile" THEN readFile(slots[s].checkPath) ELSE slots[s].data

\* the directories that a walk starting at d can read
walkPath(d) == {e \in Dirs : atOrBelow(d, e)}

\* the first file that the walk from d finds exists but cannot be read
readFailsOnWalk(d) ==
    \E e \in walkPath(d) :
        /\ manifests[e].err \notin {"", "ENOENT"}
        /\ \A f \in walkPath(d) : Len(f) > Len(e) => manifests[f].err = "ENOENT"

\* the maps and the counters are as they were
recordsUnchanged ==
    /\ authorized_credentials' = authorized_credentials
    /\ invalid_names' = invalid_names
    /\ failed' = failed

(***************************************************************************)
(* C11.  When a manifest is found, authorize grants only to a caller whose *)
(* credentials pass full validation: the derived hash equals the stored    *)
(* hash and the record is not locked.  A listed user with a wrong          *)
(* password, or a listed user who is locked, is never granted.             *)
(***************************************************************************)
C11_GrantOnlyToAuthenticated ==
    [][\A s \in Slots :
          (/\ ended(s)
           /\ slots'[s].op = "authorize"
           /\ slots'[s].granted
           /\ foundData(s).err # "ENOENT")
          => /\ completed(s)
             /\ storedHashMatches(submittedName(slots[s]), submittedPassword(slots[s]))
             /\ ~recordOf(submittedName(slots[s])).locked]_vars

\* carol, listed and locked, was denied with her own password at the
\* manifest of root/a, after alice had been denied with a wrong password
C11_Witness ==
    /\ manifests[wwwRoot \o <<"a">>] = Manifest(<<text("alice"), text("carol")>>)
    /\ failed["alice"] >= 1
    /\ \E s \in Slots :
          /\ slots[s].pc = "done"
          /\ slots[s].op = "authorize"
          /\ slots[s].req.url = <<"/", "a">>
          /\ slots[s].req.auth = BasicHeader(<<"carol", "pw1">>)
          /\ slots[s].response = LoginPrompt
          /\ ~slots[s].granted

(***************************************************************************)
(* C12.  When a manifest is found and the request carries no credentials,  *)
(* authorize answers with the 401 login challenge, also for a path that    *)
(* does not contain "private", and the callback is not invoked.            *)
(* C12_Original states it for every configuration, C12_ChallengeAtManifest *)
(* for a process with HTTPS enabled.                                       *)
(***************************************************************************)
noCredentialsAtManifest(s) ==
    /\ slots[s].pc = "readFile"
    /\ ended(s)
    /\ readFile(slots[s].checkPath).err # "ENOENT"
    /\ credentialsOf(slots[s].req) = NoCredentials

C12_Original ==
    [][\A s \in Slots :
          noCredentialsAtManifest(s)
          => /\ slots'[s].response.status = 401
             /\ \E h \in slots'[s].response.headers : h[1] = "WWW-Authenticate"
             /\ ~slots'[s].granted]_vars

C12_ChallengeAtManifest ==
    [][\A s \in Slots :
          noCredentialsAtManifest(s) /\ useHttps
          => /\ slots'[s].response.status = 401
             /\ \E h \in slots'[s].response.headers : h[1] = "WWW-Authenticate"
             /\ ~slots'[s].granted]_vars

\* a request for /a, which is not a private path, without credentials was
\* answered with the challenge
C12_Witness ==
    \E s \in Slots :
        /\ slots[s].pc = "done"
        /\ slots[s].op = "authorize"
        /\ slots[s].req = [url |-> <<"/", "a">>, auth |-> NoHeader]
        /\ ~urlHasPrivate(slots[s].req)
        /\ slots[s].response = LoginPrompt
        /\ ~slots[s].granted

(***************************************************************************)
(* C13.  When a manifest is found and the caller is authenticated but the  *)
(* caller's name is not a line of that manifest, authorize responds 403,   *)
(* does not invoke the callback and changes neither the caller's attempt   *)
(* counter nor its lock state.                                             *)
(***************************************************************************)
C13_ForbiddenWhenNotListed ==
    [][\A s \in Slots :
          (/\ completed(s)
           /\ slots[s].op = "authorize"
           /\ slots[s].data.err = ""
           /\ validCredentials(slots[s].req)
           /\ slots'[s].response # DerivationError
           /\ ~listed(slots[s].data, getUserName(slots[s].req)))
          => /\ slots'[s].response = Forbidden
             /\ slots'[s].response.status = 403
             /\ ~slots'[s].granted
             /\ recordsUnchanged]_vars

\* alice, with her password, was refused at the manifest that lists bob
C13_Witness ==
    /\ manifests[wwwRoot \o <<"a">>] = Manifest(<<text("bob")>>)
    /\ \E s \in Slots :
          /\ slots[s].pc = "done"
          /\ slots[s].op = "authorize"
          /\ slots[s].req = [url |-> <<"/", "a">>,
                             auth |-> BasicHeader(<<"alice", "pw1">>)]
          /\ slots[s].response.status = 403
          /\ authorized_credentials["alice"].loginAttempts = 0
          /\ ~authorized_credentials["alice"].locked

(***************************************************************************)
(* C14.  If reading a manifest fails for a reason other than the file      *)
(* being missing, the request is never granted, whatever credentials it    *)
(* carries.                                                                *)
(***************************************************************************)
C14_NoGrantOnReadFailure ==
    [][\A s \in Slots :
          (/\ ended(s)
           /\ slots'[s].op = "authorize"
           /\ readFailsOnWalk(absoluteSystemPath(slots'[s].req.url)))
          => ~slots'[s].granted]_vars

\* alice, with her password, asked for /a/b while the manifest of root/a
\* cannot be read: the request ended without a grant (the process ended
\* with it, in data.toString())
C14_Witness ==
    /\ manifests[wwwRoot \o <<"a", "b">>] = Missing
    /\ manifests[wwwRoot \o <<"a">>] = Unreadable
    /\ \E s \in Slots :
          /\ slots[s].pc = "done"
          /\ slots[s].op = "authorize"
          /\ slots[s].req = [url |-> <<"/", "a", "/", "b">>,
                             auth |-> BasicHeader(<<"alice", "pw1">>)]
          /\ slots[s].crashed
          /\ ~slots[s].granted

(***************************************************************************)
(* C15.  Manifest matching is an exact full-line comparison: an            *)
(* authenticated name that is only a proper prefix, suffix or substring of *)
(* a listed name, and is not itself a line of the manifest, is not         *)
(* authorized.                                                             *)
(***************************************************************************)
\* name occurs inside a line of the manifest, and no line is the name
nearMiss(data, name) ==
    /\ \E i \in 1..Len(data.lines) : includes(data.lines[i], text(name))
    /\ \A i \in 1..Len(data.lines) : data.lines[i] # text(name)

C15_ExactLine ==
    [][\A s \in Slots :
          (/\ completed(s)
           /\ slots[s].op = "authorize"
           /\ slots[s].data.err = ""
           /\ nearMiss(slots[s].data, getUserName(slots[s].req)))
          => ~slots'[s].granted]_vars

\* alice, with her password, was refused at the manifest whose lines are
\* "xalice" and "alicey"
C15_Witness ==
    /\ manifests[wwwRoot \o <<"a">>] = ForeignManifest
    /\ \E s \in Slots :
          /\ slots[s].pc = "done"
          /\ slots[s].op = "authorize"
          /\ slots[s].req = [url |-> <<"/", "a">>,
                             auth |-> BasicHeader(<<"alice", "pw1">>)]
          /\ slots[s].response = Forbidden

(***************************************************************************)
(* C16.  Manifest entries are compared after trimming: an authenticated    *)
(* user whose name stands on a manifest line with leading or trailing      *)
(* whitespace (a carriage return left by a foreign line break) is granted. *)
(***************************************************************************)
listedAfterTrim(data, name) ==
    \E i \in 1..Len(data.lines) : trim(data.lines[i]) = text(name)

C16_Claim ==
    [][\A s \in Slots :
          (/\ completed(s)
           /\ slots[s].op = "authorize"
           /\ slots[s].data.err = ""
           /\ validCredentials(slots[s].req)
           /\ slots'[s].response # DerivationError
           /\ listedAfterTrim(slots[s].data, getUserName(slots[s].req)))
          => slots'[s].granted]_vars

(***************************************************************************)
(* C17.  For every request URL, percent-encoded or not, a resource whose   *)
(* decoded path under the web root contains "private" is served only after *)
(* the request passed credential validation: the path that authenticate    *)
(* classifies and the path that the static file module resolves agree on   *)
(* whether the resource is private.  (A grant of authenticate hands the    *)
(* request to dispatch, which resolves webPath.)                           *)
(***************************************************************************)
servesPrivate(req) == includes(webPath(req.url), <<"p", "r", "i", "v", "a", "t", "e">>)

C17_Claim ==
    [][\A s \in Slots :
          (/\ ended(s)
           /\ slots'[s].op = "authenticate"
           /\ slots'[s].granted
           /\ servesPrivate(slots'[s].req))
          => /\ completed(s)
             /\ storedHashMatches(submittedName(slots[s]), submittedPassword(slots[s]))]_vars

(***************************************************************************)
(* C18.  For a request whose URL path does not contain "private",          *)
(* authenticate grants at once with no identity check: the callback runs   *)
(* whatever the Authorization header holds, and the credential map, the    *)
(* shadow map, the attempt counters and the lock flags are unchanged.      *)
(***************************************************************************)
C18_PublicGrantedUnchecked ==
    [][\A s \in Slots :
          (/\ arrived(s)
           /\ slots'[s].op = "authenticate"
           /\ ~urlHasPrivate(slots'[s].req))
          => /\ slots'[s].pc = "done"
             /\ slots'[s].granted
             /\ slots'[s].response = NoResponse
             /\ recordsUnchanged]_vars

\* a request for a public path that names mallory, whom no map knows, was
\* granted and left no shadow record
C18_Witness ==
    /\ "mallory" \notin DOMAIN invalid_names
    /\ \E s \in Slots :
          /\ slots[s].pc = "done"
          /\ slots[s].op = "authenticate"
          /\ slots[s].req = [url |-> PublicUrl,
                             auth |-> BasicHeader(<<"mallory", "pw1">>)]
          /\ slots[s].granted

(***************************************************************************)
(* C19.  A protected request with no Authorization header is denied with   *)
(* the 401 challenge and changes no state: no shadow record is created, no *)
(* attempt counter is incremented and no key derivation is started.        *)
(***************************************************************************)
C19_NoHeaderNoEffect ==
    [][\A s \in Slots :
          (/\ arrived(s)
           /\ slots'[s].op = "authenticate"
           /\ urlHasPrivate(slots'[s].req)
           /\ slots'[s].req.auth = NoHeader)
          => /\ slots'[s].pc = "done"
             /\ slots'[s].response.status = 401
             /\ \E h \in slots'[s].response.headers : h[1] = "WWW-Authenticate"
             /\ ~slots'[s].granted
             /\ recordsUnchanged]_vars

\* a request for a private path without a header was answered 401
C19_Witness ==
    \E s \in Slots :
        /\ slots[s].pc = "done"
        /\ slots[s].op = "authenticate"
        /\ slots[s].req = [url |-> PrivateUrl, auth |-> NoHeader]
        /\ slots[s].response.status = 401
        /\ ~slots[s].granted

(***************************************************************************)
(* C20.  A malformed Authorization header value (only one space-separated  *)
(* part, or a decoded value with no ':') is treated exactly like an absent *)
(* header: the request gets the 401 challenge, no shadow record is created *)
(* and no attempt counter changes.                                         *)
(***************************************************************************)
malformed(auth) ==
    \/ Len(auth) = 1
    \/ Len(auth) > 1 /\ Len(auth[2]) = 1

C20_Claim ==
    [][\A s \in Slots :
          (/\ arrived(s)
           /\ slots'[s].op = "authenticate"
           /\ urlHasPrivate(slots'[s].req)
           /\ malformed(slots'[s].req.auth))
          => /\ slots'[s].pc = "done"
             /\ ~slots'[s].crashed
             /\ slots'[s].response.status = 401
             /\ ~slots'[s].granted
             /\ recordsUnchanged]_vars

(***************************************************************************)
(* C21.  A key-derivation failure during login is answered with 500 and is *)
(* never conflated with a mismatch: it sends no login challenge, does not  *)
(* increment the attempt counter, cannot lock the record and never invokes *)
(* the callback; a mismatch is answered with 401 and always increments the *)
(* counter.                                                                *)
(***************************************************************************)
\* the hash derived for the request on connection s differs from the hash
\* stored in the record that the request names
mismatch(s) ==
    /\ hasRecord(slots[s].username)
    /\ ~storedHashMatches(slots[s].username, slots[s].password)

C21_FailureIsNotMismatch ==
    [][\A s \in Slots :
          /\ PbkdfDone(s, TRUE)
             => /\ slots'[s].response.status = 500
                /\ slots'[s].response.headers = {}
                /\ ~slots'[s].granted
                /\ recordsUnchanged
          /\ (PbkdfDone(s, FALSE) /\ mismatch(s))
             => /\ slots'[s].response.status = 401
                /\ ~slots'[s].granted
                /\ \A n \in Names :
                      n = slots[s].username
                      => recordOf(n)'.loginAttempts = recordOf(n).loginAttempts + 1]_vars

\* alice's derivation failed after one wrong password: the answer is the
\* bare 500 and her counter is still 1
C21_Witness ==
    \E s \in Slots :
        /\ slots[s].pc = "done"
        /\ slots[s].req.auth = BasicHeader(<<"alice", "pw2">>)
        /\ slots[s].response.status = 500
        /\ authorized_credentials["alice"].loginAttempts = 1
        /\ failed["alice"] = 1

(***************************************************************************)
(* C22.  A successful login leaves the record's attempt counter and lock   *)
(* flag unchanged (no reset on success), so failed attempts accumulate     *)
(* across intervening successes: 4 failed attempts in total lock the       *)
(* account even if correct-password logins succeeded in between.           *)
(***************************************************************************)
C22_NoResetOnSuccess ==
    [][/\ \A s \in Slots : (completed(s) /\ slots'[s].granted) => recordsUnchanged
       /\ \A n \in Names : (hasRecord(n)' /\ failed'[n] >= 4) => lockedNow(n)']_vars

\* alice logged in with her password after 3 failures, and her counter is
\* still 3
C22_Witness ==
    \E s \in Slots :
        /\ slots[s].pc = "done"
        /\ slots[s].op = "authenticate"
        /\ slots[s].req = [url |-> PrivateUrl, auth |-> BasicHeader(<<"alice", "pw1">>)]
        /\ slots[s].granted
        /\ authorized_credentials["alice"].loginAttempts = 3
        /\ failed["alice"] = 3

(***************************************************************************)
(* C23.  No sequence of login requests naming a username that is absent    *)
(* from the credential file is ever granted: the sentinel hash of a shadow *)
(* record never equals the hash derived from a submitted password.         *)
(***************************************************************************)
C23_UnknownNeverGranted ==
    [][\A s \in Slots :
          (/\ ended(s)
           /\ slots'[s].op = "authenticate"
           /\ urlHasPrivate(slots'[s].req)
           /\ slots'[s].req.auth # NoHeader
           /\ slots'[s].req.auth # OnePartHeader
           /\ slots'[s].req.auth[2][1] \notin DOMAIN FileRecords)
          => ~slots'[s].granted]_vars

\* mallory's shadow record took four failures and is locked; no attempt
\* was granted
C23_Witness ==
    /\ "mallory" \in DOMAIN invalid_names
    /\ invalid_names["mallory"].locked
    /\ \E s \in Slots :
          /\ slots[s].pc = "done"
          /\ slots[s].req = [url |-> PrivateUrl, auth |-> BasicHeader(<<"mallory", "pw1">>)]
          /\ slots[s].response.status = 401
          /\ ~slots[s].granted

\* SpecDispatch: the router.  The scan of the plugin root has found one of
\* these sets of modules: none; chat.js; app/chat.js with a socket server;
\* init.js with a socket server; chat.js without an init function
PluginChoices ==
    {<<>>,
     (<<<<"c", "h", "a", "t">>>> :> {<<"i", "n", "i", "t">>, <<"s", "e", "n", "d">>}),
     (<<<<"a", "p", "p">>, <<"c", "h", "a", "t">>>> :> {<<"i", "n", "i", "t">>, <<"s", "e", "n", "d">>, <<"w", "e", "b", "S", "o", "c", "k", "e", "t">>}),
     (<<<<"i", "n", "i", "t">>>> :> {<<"i", "n", "i", "t">>, <<"r", "u", "n">>, <<"w", "e", "b", "S", "o", "c", "k", "e", "t">>}) @@ (<<<<"c", "h", "a", "t">>>> :> {<<"i", "n", "i", "t">>, <<"s", "e", "n", "d">>}),
     (<<<<"c", "h", "a", "t">>>> :> {<<"s", "e", "n", "d">>})}

InitDispatch ==
    /\ InitProcess
    /\ NoIntake
    /\ useHttps \in BOOLEAN
    /\ manifests = [d \in Dirs |-> Missing]
    /\ plugins \in PluginChoices

DispatchUrls ==
    {<<"/">>,
     <<"/", "i", "n", "i", "t">>,
     <<"/", "c", "h", "a", "t", "/", "i", "n", "i", "t">>,
     <<"/", "c", "h", "a", "t", "/", "i", "n", "i", "t", "/">>,
     <<"/", "c", "h", "a", "t", "/", "i", "n", "i", "t", "?", "x">>,
     <<"/", "c", "h", "a", "t", "/", "%", "6", "9", "n", "i", "t">>,
     <<"/", "c", "h", "a", "t", "/", "s", "e", "n", "d">>,
     <<"/", "c", "h", "a", "t", "/", "t", "o", "S", "t", "r", "i", "n", "g">>,
     <<"/", "c", "h", "a", "t">>,
     <<"/", "a", "p", "p", "/", "c", "h", "a", "t", "/", "i", "n", "i", "t">>,
     <<"/", "a", "p", "p", "/", "c", "h", "a", "t", "/", "s", "e", "n", "d">>,
     <<"/", "a", "p", "p", "/", "c", "h", "a", "t">>,
     <<"/", "i", "n", "i", "t", "/", "r", "u", "n">>,
     <<"/", "i", "n", "i", "t", "/", "i", "n", "i", "t">>,
     <<"/", "a", "c", "c", "o", "u", "n", "t">>,
     <<"/", "s", "t", "a", "t", "u", "s">>,
     <<"/", "p", "r", "i", "v", "a", "t", "e", "/", "s", "t", "a", "t", "u", "s">>,
     <<"/", "a", "p", "p", "/", "i", "n", "i", "t">>}

DispatchStep ==
    \E u \in DispatchUrls, g \in BOOLEAN : dispatch([url |-> u, upgrade |-> g])

NextDispatch == DispatchStep \/ Restart

SpecDispatch == InitDispatch /\ [][NextDispatch]_vars

(***************************************************************************)
(* Vocabulary of the properties of the account-request page.               *)
(***************************************************************************)
\* in this step an account request arrived on connection s
arrivedAccount(s) ==
    /\ ~pending(s)
    /\ accounts'[s].pc \in {"pbkdf2", "done"}
    /\ accounts'[s] # accounts[s]

\* in this step a submitted form that has a username and a password arrived
\* on connection s over secure transport
submitted(s) ==
    /\ arrivedAccount(s)
    /\ useHttps
    /\ accounts'[s].method = "POST"
    /\ accounts'[s].body.username # absent
    /\ accounts'[s].body.password # absent

\* the file of pending requests and the counter stay as they are
queueUnchanged == UNCHANGED <<pendingFile, openAccountRequests>>

\* the request on connection s was let through to the key derivation
letThrough(s) == accounts'[s].pc = "pbkdf2"

\* the number of records in the file: the tokens that are not line breaks
recordCount(file) ==
    Cardinality({i \in 1..Len(file.text) : file.text[i] # EOL})

\* the record of connection s is in the file, followed by a line break
inFile(s) ==
    \E i \in 1..(Len(pendingFile.text) - 1) :
       /\ pendingFile.text[i] = accounts[s].userRecord
       /\ pendingFile.text[i + 1] = EOL

Bob123 == <<"b", "o", "b", "1", "2", "3">>

\* C24: without secure transport every account request, whatever its method,
\* username and password, is answered 400, and the file of pending requests
\* and the counter stay as they are
C24_InsecureRejected ==
    [][\A s \in Slots :
          (arrivedAccount(s) /\ ~useHttps)
          => /\ accounts'[s].pc = "done"
             /\ accounts'[s].response.status = 400
             /\ queueUnchanged]_vars

C24_Witness ==
    /\ ~useHttps
    /\ \E s, t \in Slots :
          /\ accounts[s].pc = "done"
          /\ accounts[s].method = "POST"
          /\ accounts[s].body.username = Bob123
          /\ accounts[s].response.status = 400
          /\ pendingFile = NoFile
          /\ openAccountRequests = 0

\* letters and digits only
alphanumeric(username) ==
    \A i \in 1..Len(username) :
       \/ charCode(username[i]) >= 48 /\ charCode(username[i]) <= 57
       \/ charCode(username[i]) >= 65 /\ charCode(username[i]) <= 90
       \/ charCode(username[i]) >= 97 /\ charCode(username[i]) <= 122

\* C25: over secure transport a submitted username passes the validator
\* exactly when it consists of letters and digits only and has at most 64
\* characters; any other username is answered 400 and neither the file of
\* pending requests nor the counter changes
C25_Claim ==
    [][\A s \in Slots :
          submitted(s)
          => /\ (accounts'[s].response.status # 400)
                <=> /\ alphanumeric(accounts'[s].body.username)
                    /\ Len(accounts'[s].body.username) <= 64
             /\ accounts'[s].response.status = 400 => queueUnchanged]_vars

\* in this step a form with a name of letters and digits, at most 64 of
\* them, arrived on connection s over secure transport
validSubmitted(s) ==
    /\ submitted(s)
    /\ alphanumeric(accounts'[s].body.username)
    /\ Len(accounts'[s].body.username) <= 64

\* C26, as stated: with the counter at 100 the next valid form is answered
\* 500, nothing is appended and the counter is not incremented
C26_Original ==
    [][\A s \in Slots :
          (validSubmitted(s) /\ openAccountRequests = 100)
          => /\ accounts'[s].pc = "done"
             /\ accounts'[s].response.status = 500
             /\ queueUnchanged]_vars

\* C26, amended: with the counter above 100 (101 or more pending) the next
\* valid form is answered 500, nothing is appended and the counter is not
\* incremented; with the counter at exactly 100 the form is still accepted
C26_RejectedAbove100 ==
    [][\A s \in Slots :
          validSubmitted(s)
          => /\ openAccountRequests > 100
                => /\ accounts'[s].pc = "done"
                   /\ accounts'[s].response.status = 500
                   /\ queueUnchanged
             /\ openAccountRequests <= 100 => letThrough(s)]_vars

C26_Witness ==
    /\ openAccountRequests = 101
    /\ newRecords(pendingFile) = 1
    /\ recordCount(pendingFile) = 101
    /\ \E s \in Slots :
          /\ accounts[s].pc = "done"
          /\ accounts[s].method = "POST"
          /\ accounts[s].body.username = Bob123
          /\ accounts[s].response.status = 500
          /\ accounts[s].response.body = "Too many open account requests."

\* in this step the request on connection s was acknowledged
acknowledged(s) ==
    /\ accounts'[s] # accounts[s]
    /\ accounts'[s].pc = "done"
    /\ accounts'[s].response.status = 200
    /\ accounts'[s].response.body = "Account requested."

\* the write for connection s has succeeded and its record is in the file
appendSucceeded(s) ==
    /\ accounts[s].pc = "appended"
    /\ accounts[s].err = ""
    /\ inFile(s)

\* C27: an account request is acknowledged with 200 only when its record
\* has been appended to the file of pending requests before, and the
\* counter of a running process grows only by 1 and only in the step that
\* acknowledges a request whose append has succeeded
C27_AckAfterAppend ==
    [][/\ \A s \in Slots : acknowledged(s) => appendSucceeded(s)
       /\ openAccountRequests' > openAccountRequests
          => \/ Restart
             \/ /\ openAccountRequests' = openAccountRequests + 1
                /\ \E s \in Slots : acknowledged(s) /\ appendSucceeded(s)]_vars

C27_Witness ==
    /\ openAccountRequests = 1
    /\ pendingFile.exists
    /\ Len(pendingFile.text) = 2
    /\ pendingFile.text[1][1] = Bob123
    /\ pendingFile.text[2] = EOL
    /\ \E s \in Slots :
          /\ accounts[s].pc = "done"
          /\ accounts[s].body.username = Bob123
          /\ accounts[s].response.status = 200
          /\ accounts[s].response.body = "Account requested."

\* C28: when the append of an accepted request has failed, the callback of
\* the write answers the caller with a response that is not a success, and
\* the counter is not incremented
C28_Claim ==
    [][\A s \in Slots :
          (AppendCallback(s) /\ accounts[s].err # "")
          => /\ accounts'[s].pc = "done"
             /\ accounts'[s].response.status >= 400
             /\ UNCHANGED openAccountRequests]_vars

\* C29: every start of the process, also one that follows a crash between
\* the append of a record and the increment of the counter, leaves the
\* counter equal to the number of records in the file of pending requests,
\* and equal to zero when there is no such file
C29_CounterRecomputed ==
    [][Restart
       => /\ openAccountRequests' = recordCount(pendingFile')
          /\ ~pendingFile'.exists => openAccountRequests' = 0]_vars

\* a start has recovered a record whose increment was lost: the record is in
\* the file, no connection holds a request, and the counter includes it
C29_Witness ==
    /\ running
    /\ \A s \in Slots : accounts[s] = IdleAccount
    /\ newRecords(pendingFile) = 1
    /\ recordCount(pendingFile) = maxOpenAccountRequests
    /\ openAccountRequests = maxOpenAccountRequests

\* in this step the record of connection s reached the file
written(s) ==
    /\ accounts[s].pc = "appendFile"
    /\ accounts'[s].pc = "appended"
    /\ accounts'[s].err = ""

\* a login with the name and the password of the form is matched by the
\* record that a start of the process loads from the row
roundTrip(userRecord, body) ==
    LET loaded == authorized_credentials_load(<<credentialRow(userRecord)>>)
    IN /\ body.username \in DOMAIN loaded
       /\ \A n \in DOMAIN loaded :
             n = body.username
             => credentialsMatch(loaded[n],
                   getPasswordHash(loaded[n].salt, loginPassword(body.password)))

\* C30: the record that the intake appends for a name and a password, copied
\* into the credential file and loaded at startup, is matched by a login
\* that submits the same name and the same password
C30_Claim ==
    [][\A s \in Slots :
          written(s) => roundTrip(accounts[s].userRecord, accounts[s].body)]_vars

(***************************************************************************)
(* Properties of the router.                                               *)
(***************************************************************************)
\* the last non-empty segment of the path of a URL, <<>> when there is none
actionSegment(url) ==
    IF parts(url) = <<>> THEN <<>> ELSE parts(url)[Len(parts(url))]

denied(s, n) ==
    /\ completed(s)
    /\ slots[s].username = n
    /\ ~slots'[s].crashed
    /\ ~slots'[s].granted
    /\ slots'[s].response.status = 401

\* the record of n, when it was not loaded as locked, is locked exactly when
\* its counter is above 3
lockTracksAttempts(n) ==
    hasRecord(n)
    => \/ recordOf(n).locked <=> recordOf(n).loginAttempts > 3
       \/ loadedLocked(n)

\* C32: while the process runs, every record, real or shadow, that was not
\* loaded as locked is locked exactly when its loginAttempts is above 3, and
\* the loginAttempts of a record never decreases: it grows by 1 in a step
\* that denies a validation of its name and stays as it is in any other step
C32_LockTracksAttempts ==
    [][\/ \A n \in Names :
             /\ lockTracksAttempts(n)
             /\ lockTracksAttempts(n)'
             /\ hasRecord(n)
                => /\ hasRecord(n)'
                   /\ recordOf(n)'.loginAttempts =
                         IF \E s \in Slots : denied(s, n)
                         THEN recordOf(n).loginAttempts + 1
                         ELSE recordOf(n).loginAttempts
       \/ Restart]_vars

\* the fourth denial of "mallory" has locked the shadow record, while the
\* record of "alice", denied once, is not locked
C32_Witness ==
    /\ "mallory" \in DOMAIN invalid_names
    /\ recordOf("mallory").loginAttempts = 4
    /\ recordOf("mallory").locked
    /\ recordOf("alice").loginAttempts = 1
    /\ ~recordOf("alice").locked
    /\ failed["mallory"] = 4

\* the record of n is replaced or changed in no other way than by being
\* charged with one more failed attempt
keptOrCharged(n) ==
    LET before == recordOf(n)
        after == recordOf(n)'
    IN /\ hasRecord(n)'
       /\ n \in DOMAIN authorized_credentials <=> n \in DOMAIN authorized_credentials'
       /\ \/ after = before
          \/ /\ after.salt = before.salt
             /\ after.pwHash = before.pwHash
             /\ before.locked => after.locked
             /\ after.loginAttempts = before.loginAttempts + 1

\* the counter of n equals the number of validations of n that were
\* completed and denied since the process started
noAttemptLost(n) ==
    IF hasRecord(n) THEN recordOf(n).loginAttempts = failed[n] ELSE failed[n] = 0

\* C33: under every interleaving of login requests that overlap while their
\* key derivations are in flight, a name has at most one record, a record
\* that exists is never replaced or reset (first-sight requests for the same
\* unknown name create one shadow record between them), and no failed
\* attempt is lost: the counter of a name equals the number of completed
\* denied validations of that name
C33_AtomicFirstSight ==
    [][\/ \A n \in Names :
             /\ ~(n \in DOMAIN authorized_credentials' /\ n \in DOMAIN invalid_names')
             /\ hasRecord(n) => keptOrCharged(n)
             /\ noAttemptLost(n)
             /\ noAttemptLost(n)'
       \/ Restart]_vars

\* two requests for the unknown name "mallory" overlapped: the first was
\* denied while the second still waits for its key derivation
C33_Witness ==
    /\ DOMAIN invalid_names = {"mallory"}
    /\ invalid_names["mallory"].loginAttempts = 1
    /\ failed["mallory"] = 1
    /\ slots[1].pc = "done"
    /\ slots[1].username = ""
    /\ credentialsOf(slots[1].req)[1] = "mallory"
    /\ slots[1].response.status = 401
    /\ slots[2].pc = "pbkdf2"
    /\ slots[2].username = "mallory"

(***************************************************************************)
(* Further properties of the account-request page.                         *)
(***************************************************************************)
\* C34: under every interleaving of account requests the file of pending
\* requests never holds more than 101 records
C34_Claim == recordCount(pendingFile) <= 101

\* the write of connection s has succeeded and its callback has not run
betweenAppendAndIncrement(s) == accounts[s].pc = "appended" /\ accounts[s].err = ""

\* C35: the counter never decreases and is never above the number of
\* records in the file of pending requests, and in a running process the
\* two are equal whenever no connection is between the completion of its
\* append and the increment
C35_CounterTracksFile ==
    [][/\ openAccountRequests' >= openAccountRequests
       /\ openAccountRequests <= recordCount(pendingFile)
       /\ openAccountRequests' <= recordCount(pendingFile')
       /\ (running' /\ \A s \in Slots : ~betweenAppendAndIncrement(s)')
          => openAccountRequests' = recordCount(pendingFile')]_vars

\* one record is in the file and its increment is still to come, while the
\* record of an earlier request is already counted
C35_Witness ==
    /\ running
    /\ recordCount(pendingFile) = 2
    /\ openAccountRequests = 1
    /\ \E s \in Slots : betweenAppendAndIncrement(s)

(***************************************************************************)
(* Further properties of the authorization walk.                           *)
(***************************************************************************)
\* in this step the walk on connection s went on to the next directory
climbed(s) ==
    /\ slots[s].pc = "readFile"
    /\ slots'[s].pc = "readFile"
    /\ slots'[s] # slots[s]

\* p is a proper prefix of q
properPrefix(p, q) == Len(p) < Len(q) /\ SubSeq(q, 1, Len(p)) = p

\* C36: a walk that starts at the root or below it goes from a directory
\* only to a proper ancestor of it, reads no directory above the parent of
\* the root (so the reads are at most the depth of the start below the root
\* plus two), and ends with one decision: the grant, or a 401, 403 or 500
C36_Claim ==
    [][\A s \in Slots :
          /\ climbed(s)
             => /\ properPrefix(slots'[s].checkPath, slots[s].checkPath)
                /\ Len(slots'[s].checkPath) >= Len(wwwRoot) - 1
          /\ (ended(s) /\ slots'[s].op = "authorize")
             => /\ ~slots'[s].crashed
                /\ \/ slots'[s].granted /\ slots'[s].response = NoResponse
                   \/ ~slots'[s].granted /\ slots'[s].response.status \in {401, 403, 500}]_vars

\* C37: over secure transport the handling of an account request, whatever
\* its method and its body, ends with a response: no request is left
\* without an answer and none ends the process
C37_Claim ==
    [][\A s \in Slots :
          (useHttps /\ accounts'[s] # accounts[s] /\ accounts'[s].pc = "done")
          => /\ ~accounts'[s].crashed
             /\ accounts'[s].response.status # 0]_vars

(***************************************************************************)
(* Properties of a request that passes both gates.                         *)
(***************************************************************************)
\* the failed attempts counted in all records
totalAttempts ==
    sumAttempts(authorized_credentials, DOMAIN authorized_credentials)
      + sumAttempts(invalid_names, DOMAIN invalid_names)

\* in this step a failed attempt was charged to the request on connection s
charged(s) == \E n \in Names : denied(s, n)

\* in this step the request on connection s, which has passed authenticate,
\* went on to authorize
continued(s) == slots[s].op = "authenticate" /\ slots'[s].op = "authorize"

\* in this step a response was written for the request on connection s
answered(s) == slots'[s] # slots[s] /\ slots'[s].response # NoResponse

\* C38: a request over HTTPS is charged at most one failed attempt, on one
\* record, and gets at most one response, also when its credentials are
\* validated by authenticate and again by authorize: a step counts at most
\* one attempt; the step that charges or answers a request ends it; and a
\* request goes on from authenticate to authorize only when it was granted
\* there, so with nothing charged and nothing answered
C38_OneChargeOneResponse ==
    [][Restart
       \/ /\ totalAttempts' \in {totalAttempts, totalAttempts + 1}
          /\ totalAttempts' = totalAttempts + 1 => \E s \in Slots : charged(s)
          /\ \A s \in Slots :
                /\ (charged(s) \/ answered(s))
                   => /\ slots'[s].pc = "done"
                      /\ ~slots'[s].granted
                      /\ \A t \in Slots : t # s => ~charged(t) /\ ~answered(t)
                /\ continued(s)
                   => /\ slots[s].pc = "done"
                      /\ slots[s].granted
                      /\ slots[s].response = NoResponse
                      /\ slots'[s].req = slots[s].req
                      /\ totalAttempts' = totalAttempts]_vars

\* alice passed authenticate with her password; four wrong passwords on
\* another connection then locked her record, and the second validation of
\* the first request, at the manifest of the root, was denied
C38_Witness ==
    /\ recordOf("alice").loginAttempts = 5
    /\ recordOf("alice").locked
    /\ \E s \in Slots :
          /\ slots[s].pc = "done"
          /\ slots[s].op = "authorize"
          /\ slots[s].req = [url |-> PrivateUrl, auth |-> BasicHeader(<<"alice", "pw1">>)]
          /\ slots[s].response.status = 401
          /\ ~slots[s].granted

\* C39: with HTTPS not enabled, a walk that finds a manifest between the
\* requested directory and the root is answered 500 and not granted,
\* whatever the Authorization header holds and without a change to any
\* record, and a walk with no manifest from the requested directory up to
\* the root is granted
C39_Claim ==
    [][\A s \in Slots :
          (ended(s) /\ slots'[s].op = "authorize" /\ ~useHttps)
          => /\ recordsUnchanged
             /\ IF noManifestUpToRoot(absoluteSystemPath(slots'[s].req.url))
                THEN slots'[s].granted
                ELSE ~slots'[s].granted /\ slots'[s].response.status = 500]_vars

====
